---------------------------- MODULE Spec2Model ----------------------------
(***************************************************************************)
(* State-machine model of gloria-mcp: the GloriaClient HTTP wrapper        *)
(* (client.py), the response shapers (models.py) and the tool / resource   *)
(* handlers with their lazily built singleton client (server.py).          *)
(*                                                                         *)
(* A tool invocation is a coroutine.  It can be suspended only where it    *)
(* awaits network I/O, which is the single `await client.get(...)` of      *)
(* GloriaClient._get; everything before it (clamping, _get_client(),       *)
(* GloriaClient._client(), building the parameters) runs in one piece, and *)
(* so does everything after it (raise_for_status, json, the shaper).       *)
(* Hence one invocation is two actions: it is started (up to the request   *)
(* being on the wire) and later the response is delivered to it.           *)
(***************************************************************************)
EXTENDS Integers, Sequences, FiniteSets, TLC

(***************************************************************************)
(* Python values.  A string is the tuple <<"str", f1, ..., fn>> of its     *)
(* fragments (concatenation appends fragments, the empty string has none), *)
(* None is <<"None">>.  A dict is a function from its keys to values.      *)
(***************************************************************************)
None == <<"None">>

EmptyStr == <<"str">>

Str(s) == <<"str", s>>

Concat(a, b) == a \o Tail(b)

IsStr(v) == Len(v) >= 1 /\ v[1] = "str"

\* Python truthiness of an optional string: None and "" are falsy.
Truthy(v) == v # None /\ v # EmptyStr

EmptyDict == [k \in {} |-> None]

Max(a, b) == IF a >= b THEN a ELSE b

Min(a, b) == IF a <= b THEN a ELSE b

RECURSIVE rstrip(_, _)
\* str.rstrip(ch): drop every trailing fragment equal to ch.
rstrip(s, ch) ==
    IF Len(s) > 1 /\ s[Len(s)] = ch THEN rstrip(SubSeq(s, 1, Len(s) - 1), ch) ELSE s

(***************************************************************************)
(* models.py                                                               *)
(***************************************************************************)
FREE_NEWS_FIELDS ==
    <<"id", "signal", "sentiment", "sentiment_value", "timestamp",
      "feed_categories", "sources", "author", "tokens", "tweet_url">>

FreeFieldSet == {FREE_NEWS_FIELDS[i] : i \in DOMAIN FREE_NEWS_FIELDS}

\* Faulty variant: the item is passed through whole.
truncate_news_unfiltered(item) == item

\* {k: item[k] for k in FREE_NEWS_FIELDS if k in item}
truncate_news(item) ==
    [k \in {f \in FreeFieldSet : f \in DOMAIN item} |-> item[k]]

\* dict.get(key): the value, or None when the key is missing.
DictGet(d, k) == IF k \in DOMAIN d THEN d[k] ELSE None

RecapFields == {"feed_category", "timeframe", "recap", "created_at"}

format_recap(item) == [k \in RecapFields |-> DictGet(item, k)]

X402_BASE == Str("https://api.itsgloria.ai")

HowToPay == Str("Send a GET request to the endpoint. You'll receive an HTTP 402 response ...")

PriceNote == Str("USDC on Base - exact amount returned in HTTP 402 response")

enriched_news_payment_info ==
    [payment_required |-> Str("True"),
     protocol |-> Str("x402"),
     description |-> Str("Get enriched news with full AI-generated context ..."),
     endpoint |-> Concat(X402_BASE, Str("/news")),
     method |-> Str("GET"),
     required_params |-> [feed_categories |-> Str("Category code")],
     optional_params |-> [from_date |-> Str("YYYY-MM-DD"), to_date |-> Str("YYYY-MM-DD"),
                          limit |-> Str("1-10, default 10"),
                          page |-> Str("Page number, default 1")],
     price |-> PriceNote,
     how_to_pay |-> HowToPay]

ticker_summary_payment_info ==
    [payment_required |-> Str("True"),
     protocol |-> Str("x402"),
     description |-> Str("Get a comprehensive 24-hour AI-generated summary ..."),
     endpoint |-> Concat(X402_BASE, Str("/news-ticker-summary")),
     method |-> Str("GET"),
     required_params |-> [ticker |-> Str("Ticker symbol or topic name")],
     price |-> PriceNote,
     how_to_pay |-> HowToPay]

(***************************************************************************)
(* State                                                                   *)
(***************************************************************************)
VARIABLES
    env,        \* os.environ: GLORIA_API_TOKEN and AI_HUB_BASE_URL (None = unset)
    client,     \* server._client: NoClient, or the GloriaClient object
    closed,     \* the httpx.AsyncClient objects whose is_closed is true
    nsessions,  \* httpx.AsyncClient objects allocated so far (they are 1..nsessions)
    nclients,   \* GloriaClient objects constructed so far
    nreq,       \* GET requests put on the wire so far
    task,       \* per invocation slot: idle, or suspended in `await client.get(...)`
    ret         \* what the most recently completed invocation handed to its caller

vars == <<env, client, closed, nsessions, nclients, nreq, task, ret>>

\* Bounds of the model.
MaxTasks == 2

MaxRequests == 2

MaxSessions == 2

MaxItemKeys == 1

Tasks == 1..MaxTasks

NoClient == [id |-> 0]

NoSession == 0

Idle == [pc |-> "idle"]

NoRet == [op |-> "none"]

Raised(e) == [outcome |-> "raised", value |-> e]

Returned(v) == [outcome |-> "returned", value |-> v]

(***************************************************************************)
(* server.py: the singleton client                                         *)
(***************************************************************************)
DefaultBaseUrl == Str("https://ai-hub.cryptobriefing.com")

\* os.environ.get(name, default)
EnvGet(name, default) == IF env[name] = None THEN default ELSE env[name]

ConfigError ==
    [exc |-> "RuntimeError",
     msg |-> Str("GLORIA_API_TOKEN environment variable is required")]

\* GloriaClient.__init__
GloriaClient(base_url, token) ==
    [id |-> nclients + 1,
     base_url |-> rstrip(base_url, "/"),
     token |-> token,
     http |-> NoSession]

\* Faulty variant: a client is built on every call.
ClientMissing_always(c) == TRUE

\* `if _client is None:` of _get_client
ClientMissing(c) == c = NoClient

\* Faulty variant: the token is not checked.
GetClientRaises_never == FALSE

\* `if not token: raise RuntimeError(...)`, reached only when no client is stored
GetClientRaises ==
    ClientMissing(client) /\ ~Truthy(EnvGet("GLORIA_API_TOKEN", EmptyStr))

\* The object _get_client() returns (and stores) when it does not raise.
GetClientResult ==
    IF ClientMissing(client)
    THEN GloriaClient(EnvGet("AI_HUB_BASE_URL", DefaultBaseUrl),
                      EnvGet("GLORIA_API_TOKEN", EmptyStr))
    ELSE client

(***************************************************************************)
(* client.py                                                               *)
(***************************************************************************)
\* Faulty variant: a closed session is taken for a usable one.
SessionMissing_ignores_closed(c) == c.http = NoSession

\* Faulty variant: every request allocates a session.
SessionMissing_always(c) == TRUE

\* `self._http is None or self._http.is_closed`
SessionMissing(c) == c.http = NoSession \/ c.http \in closed

\* GloriaClient._client(): the session the request goes out on
SessionOf(c) == IF SessionMissing(c) THEN nsessions + 1 ELSE c.http

\* Faulty variant: the token is not added.
WithToken_forgotten(params, c) == params

\* `params = params or {}; params["token"] = self._token`
WithToken(params, c) == ("token" :> c.token) @@ params

\* GloriaClient.get_news: the parameters and path it hands to _get
NewsParams(category, keyword, limit) ==
    (IF Truthy(keyword) THEN ("keyword" :> keyword) ELSE EmptyDict)
    @@ (IF Truthy(category) THEN ("feed_categories" :> category) ELSE EmptyDict)
    @@ ("limit" :> limit) @@ ("page" :> 1)

RecapParams(category, timeframe) ==
    ("feed_category" :> category) @@ ("timeframe" :> timeframe)

\* raise_for_status() and json() of GloriaClient._get, applied to what came back
GetOutcome(resp) ==
    IF resp.kind = "timeout" THEN Raised([exc |-> "TimeoutException"])
    ELSE IF resp.status \notin 200..299
         THEN Raised([exc |-> "HTTPStatusError", status |-> resp.status])
    ELSE IF resp.kind = "garbage" THEN Raised([exc |-> "JSONDecodeError"])
    ELSE Returned(resp.body)

(***************************************************************************)
(* server.py: what each handler does with the outcome g of its one call    *)
(* into the client (g is Raised(exception) or Returned(decoded body)).     *)
(* A decoded body is [t |-> "null"], [t |-> "list", v |-> <<dict, ...>>]   *)
(* or [t |-> "dict", v |-> dict].                                          *)
(***************************************************************************)
JsonNull == [t |-> "null"]

JsonList(seq) == [t |-> "list", v |-> seq]

JsonDict(d) == [t |-> "dict", v |-> d]

\* The Python object a decoded body is.
PyValue(body) == IF body.t = "null" THEN None ELSE body.v

\* Faulty variant: only the upper bound is applied.
ClampLatest_no_floor(limit) == Min(10, limit)

\* `limit = max(1, min(10, limit))`
ClampLatest(limit) == Max(1, Min(10, limit))

\* `limit = max(1, min(5, limit))`
ClampSearch(limit) == Max(1, Min(5, limit))

\* A keyword argument of a call: the value passed, or the signature's default.
Arg(args, name, default) == IF name \in DOMAIN args THEN args[name] ELSE default

\* [truncate_news(item) for item in items]; iterating None raises TypeError
TruncateAll(g) ==
    IF g.outcome = "raised" THEN g
    ELSE IF g.value.t # "list" THEN Raised([exc |-> "TypeError"])
    ELSE Returned([i \in DOMAIN g.value.v |-> truncate_news(g.value.v[i])])

NoRecapMessage(category, timeframe) ==
    Concat(Concat(Concat(Concat(Str("No recap found for category '"), category),
                         Str("' with timeframe '")), timeframe), Str("'."))

NotFoundMessage(id) == Concat(Concat(Str("News item '"), id), Str("' not found."))

\* Faulty variant: no `is None` test, format_recap(None) raises.
after_get_news_recap_unchecked(args, g) ==
    IF g.outcome = "raised" THEN g
    ELSE IF g.value.t = "null" THEN Raised([exc |-> "AttributeError"])
    ELSE Returned(format_recap(g.value.v))

after_get_news_recap(args, g) ==
    IF g.outcome = "raised" THEN g
    ELSE IF g.value.t = "null"
         THEN Returned([error |-> NoRecapMessage(args.category,
                                                 Arg(args, "timeframe", Str("12h")))])
    ELSE Returned(format_recap(g.value.v))

after_get_news_item(args, g) ==
    IF g.outcome = "raised" THEN g
    ELSE IF g.value.t = "null" THEN Returned([error |-> NotFoundMessage(args.id)])
    ELSE Returned(truncate_news(g.value.v))

after_get_categories(g) ==
    IF g.outcome = "raised" THEN g ELSE Returned(PyValue(g.value))

CategoriesFallback ==
    Str("Categories temporarily unavailable. Use the get_categories tool instead.")

CategoriesHeader == Str("Available Gloria AI news categories:\n")

\* One line of the categories resource.
CategoryLine(cat) ==
    LET recap == DictGet(cat, "recap_timeframe")
        recap_info == IF Truthy(recap)
                      THEN Concat(Concat(Str(" (recaps every "), recap), Str(")"))
                      ELSE Str(" (no recaps)")
    IN  Concat(Concat(Concat(Concat(Str("- "), cat["code"]), Str(": ")), cat["name"]),
               recap_info)

RECURSIVE Join(_, _)
\* sep.join(lines)
Join(lines, sep) ==
    IF Len(lines) = 0 THEN EmptyStr
    ELSE IF Len(lines) = 1 THEN lines[1]
    ELSE Concat(Concat(lines[1], sep), Join(Tail(lines), sep))

\* Whether the body of the try block raises once the categories are there:
\* iterating None (TypeError) or cat['code'] / cat['name'] missing (KeyError).
RenderRaises(body) ==
    \/ body.t # "list"
    \/ \E i \in DOMAIN body.v : ~({"code", "name"} \subseteq DOMAIN body.v[i])

\* Faulty variant: a failure of the fetch is not caught.
after_categories_resource_uncaught(g) ==
    IF g.outcome = "raised" THEN g
    ELSE IF RenderRaises(g.value) THEN Returned(CategoriesFallback)
    ELSE Returned(Join(<<CategoriesHeader>>
                       \o [i \in DOMAIN g.value.v |-> CategoryLine(g.value.v[i])],
                       Str("\n")))

\* try: ... except Exception: return the fallback
after_categories_resource(g) ==
    IF g.outcome = "raised" \/ RenderRaises(g.value)
    THEN Returned(CategoriesFallback)
    ELSE Returned(Join(<<CategoriesHeader>>
                       \o [i \in DOMAIN g.value.v |-> CategoryLine(g.value.v[i])],
                       Str("\n")))

AboutText == Str("Gloria AI is a real-time crypto intelligence platform ...")

\* The handler's code after its await, by tool.
Resume(op, args, g) ==
    CASE op = "get_latest_news" -> TruncateAll(g)
      [] op = "search_news" -> TruncateAll(g)
      [] op = "get_news_recap" -> after_get_news_recap(args, g)
      [] op = "get_news_item" -> after_get_news_item(args, g)
      [] op = "get_categories" -> after_get_categories(g)
      [] op = "categories_resource" -> after_categories_resource(g)

NoResp == [kind |-> "none"]

\* An invocation ends: its caller gets out.value (returned) or out.value (raised).
Handed(op, resp, out) ==
    [op |-> op, resp |-> resp, outcome |-> out.outcome, value |-> out.value]

\* A handler that ends without ever suspending.
EndsAtOnce(op, out) ==
    /\ ret' = Handed(op, NoResp, out)
    /\ UNCHANGED <<env, client, closed, nsessions, nclients, nreq, task>>

\* GloriaClient._get up to `await client.get(path, params=params)`, entered with the
\* result of _get_client(): the session is looked up or allocated, the token is
\* added, the request goes out and the invocation is suspended.
Send(t, op, args, path, params) ==
    LET c == GetClientResult
        s == SessionOf(c)
    IN  /\ nreq < MaxRequests
        /\ s <= MaxSessions
        /\ client' = [c EXCEPT !.http = s]
        /\ nclients' = IF ClientMissing(client) THEN nclients + 1 ELSE nclients
        /\ nsessions' = IF SessionMissing(c) THEN nsessions + 1 ELSE nsessions
        /\ nreq' = nreq + 1
        /\ task' = [task EXCEPT ![t] =
                      [pc |-> "awaiting", op |-> op, args |-> args,
                       req |-> [path |-> path, params |-> WithToken(params, c),
                                sess |-> s, client |-> c.id]]]
        /\ ret' = NoRet
        /\ UNCHANGED <<env, closed>>

\* A handler whose first statement awaits a client call.
Call(t, op, args, path, params) ==
    /\ IF GetClientRaises
       THEN EndsAtOnce(op, IF op = "categories_resource"
                              THEN Returned(CategoriesFallback)
                              ELSE Raised(ConfigError))
       ELSE Send(t, op, args, path, params)

get_latest_news(t, args) ==
    /\ task[t] = Idle
    /\ Call(t, "get_latest_news", args, <<"/news">>,
         NewsParams(Arg(args, "category", None), None,
                    ClampLatest(Arg(args, "limit", 5))))

search_news(t, args) ==
    /\ task[t] = Idle
    /\ Call(t, "search_news", args, <<"/news">>,
         NewsParams(None, args.query, ClampSearch(Arg(args, "limit", 5))))

get_news_recap(t, args) ==
    /\ task[t] = Idle
    /\ Call(t, "get_news_recap", args, <<"/recaps">>,
         RecapParams(args.category, Arg(args, "timeframe", Str("12h"))))

get_categories(t) ==
    /\ task[t] = Idle
    /\ Call(t, "get_categories", EmptyDict, <<"/available-feed-categories">>, EmptyDict)

get_news_item(t, args) ==
    /\ task[t] = Idle
    /\ Call(t, "get_news_item", args, <<"/news/", args.id>>, EmptyDict)

categories_resource(t) ==
    /\ task[t] = Idle
    /\ Call(t, "categories_resource", EmptyDict, <<"/available-feed-categories">>,
         EmptyDict)

\* Faulty variant: the paid tool is proxied to upstream.
get_enriched_news_proxied(t) ==
    /\ task[t] = Idle
    /\ Call(t, "get_enriched_news", EmptyDict, <<"/news">>, EmptyDict)

get_enriched_news(t) ==
    /\ task[t] = Idle
    /\ EndsAtOnce("get_enriched_news", Returned(enriched_news_payment_info))

get_ticker_summary(t) ==
    /\ task[t] = Idle
    /\ EndsAtOnce("get_ticker_summary", Returned(ticker_summary_payment_info))

about(t) ==
    /\ task[t] = Idle
    /\ EndsAtOnce("about", Returned(AboutText))

\* The awaited client.get(...) of invocation t completes with resp; the rest of
\* _get and of the handler run to the end.
Deliver(t, resp) ==
    /\ task[t].pc = "awaiting"
    /\ ret' = Handed(task[t].op, resp,
                     Resume(task[t].op, task[t].args, GetOutcome(resp)))
    /\ task' = [task EXCEPT ![t] = Idle]
    /\ UNCHANGED <<env, client, closed, nsessions, nclients, nreq>>

\* GloriaClient.close(), called by whoever shuts the process down.
\* httpx marks the session closed before aclose() first suspends.
close ==
    /\ client # NoClient
    /\ closed' = IF client.http # NoSession /\ client.http \notin closed
                 THEN closed \cup {client.http}
                 ELSE closed
    /\ ret' = NoRet
    /\ UNCHANGED <<env, client, nsessions, nclients, nreq, task>>

\* The process environment is changed from outside the handlers.
EnvChange(e) ==
    /\ e # env
    /\ env' = e
    /\ ret' = NoRet
    /\ UNCHANGED <<client, closed, nsessions, nclients, nreq, task>>

(***************************************************************************)
(* Inputs: environments, calls and upstream responses                      *)
(***************************************************************************)
Envs ==
    [GLORIA_API_TOKEN : {None, EmptyStr, Str("tokA"), Str("tokB")},
     AI_HUB_BASE_URL : {None, <<"str", "h", "/">>}]

PaidFields == {"long_context", "short_context"}

KeyUniverse == FreeFieldSet \cup PaidFields \cup {"error"}

Values == {Str("a"), None}

\* News items: every item with at most MaxItemKeys keys, and every item that
\* lacks at most MaxItemKeys keys of the universe (one value throughout).
Items ==
    UNION {[d -> Values] : d \in {k \in SUBSET KeyUniverse : Cardinality(k) <= MaxItemKeys}}
    \cup {[k \in d |-> v] : v \in Values,
          d \in {k \in SUBSET KeyUniverse : Cardinality(KeyUniverse \ k) <= MaxItemKeys}}

FullItem == [k \in KeyUniverse |-> Str("a")]

Recaps == UNION {[d -> {Str("r")}] : d \in SUBSET (RecapFields \cup {"error"})}

Categories ==
    UNION {[d -> {Str("c")}] : d \in SUBSET {"code", "name"}}
    \cup {[code |-> Str("btc"), name |-> Str("Bitcoin"), recap_timeframe |-> r] :
             r \in {None, EmptyStr, Str("1h")}}
    \cup {[code |-> Str("btc"), recap_timeframe |-> Str("1h")]}

\* The environments the process is switched to while it runs.
FewEnvs ==
    [GLORIA_API_TOKEN : {EmptyStr, Str("tokA"), Str("tokB")}, AI_HUB_BASE_URL : {None}]

\* The environments the process may be started in when it is later switched.
StartEnvs ==
    FewEnvs \cup {[GLORIA_API_TOKEN |-> None, AI_HUB_BASE_URL |-> None],
                  [GLORIA_API_TOKEN |-> Str("tokA"), AI_HUB_BASE_URL |-> <<"str", "h", "/">>]}

Ok(body) == [kind |-> "ok", status |-> 200, body |-> body]

Failures ==
    {[kind |-> "status", status |-> 404], [kind |-> "status", status |-> 500],
     [kind |-> "timeout"], [kind |-> "garbage", status |-> 200]}

\* What upstream may answer on each endpoint.
Responses(op) ==
    Failures \cup {Ok(JsonNull)} \cup
    CASE op \in {"get_latest_news", "search_news"} ->
            {Ok(JsonList(<<>>))} \cup {Ok(JsonList(<<i>>)) : i \in Items}
            \cup {Ok(JsonList(<<FullItem, i>>)) : i \in Items}
      [] op = "get_news_item" -> {Ok(JsonDict(i)) : i \in Items}
      [] op = "get_news_recap" -> {Ok(JsonDict(r)) : r \in Recaps}
      [] op \in {"get_categories", "categories_resource"} ->
            {Ok(JsonList(<<>>))} \cup {Ok(JsonList(<<c>>)) : c \in Categories}
            \cup {Ok(JsonList(<<c, d>>)) : c, d \in Categories}

\* A small sample of the same, for the runs with several invocations in flight.
FewResponses(op) ==
    {[kind |-> "status", status |-> 500], [kind |-> "timeout"], Ok(JsonNull)} \cup
    CASE op \in {"get_latest_news", "search_news"} -> {Ok(JsonList(<<FullItem>>))}
      [] op = "get_news_item" -> {Ok(JsonDict(FullItem))}
      [] op = "get_news_recap" -> {Ok(JsonDict([recap |-> Str("r")]))}
      [] op \in {"get_categories", "categories_resource"} ->
            {Ok(JsonList(<<[code |-> Str("btc"), name |-> Str("Bitcoin")]>>))}

LimitSpread == 3

Limits == ((0 - LimitSpread)..(10 + LimitSpread)) \cup {999}

OptionalStrings == {None, EmptyStr, Str("btc")}

LatestCalls ==
    {EmptyDict} \cup [category : OptionalStrings] \cup [limit : Limits]
    \cup [category : {Str("btc")}, limit : Limits]

SearchCalls ==
    [query : {EmptyStr, Str("ETF")}] \cup [query : {Str("ETF")}, limit : Limits]

RecapCalls ==
    [category : {Str("btc"), Str("nonexistent-category")}]
    \cup [category : {Str("btc"), Str("nonexistent-category")},
          timeframe : {Str("1h"), Str("12h")}]

ItemCalls == [id : {Str("n1"), Str("n2")}]

FewLatestCalls == {[category |-> Str("btc"), limit |-> 999]}

FewSearchCalls == {[query |-> Str("ETF"), limit |-> 999]}

FewRecapCalls == {[category |-> Str("btc")]}

FewItemCalls == {[id |-> Str("n1")]}

(***************************************************************************)
(* Specifications                                                          *)
(***************************************************************************)
Init ==
    /\ env \in StartEnvs
    /\ client = NoClient
    /\ closed = {}
    /\ nsessions = 0
    /\ nclients = 0
    /\ nreq = 0
    /\ task = [t \in Tasks |-> Idle]
    /\ ret = NoRet

\* Any number of invocations in flight at once, close() and environment changes
\* interleaved with them.
Next ==
    \/ \E t \in Tasks, args \in FewLatestCalls : get_latest_news(t, args)
    \/ \E t \in Tasks, args \in FewRecapCalls : get_news_recap(t, args)
    \/ \E t \in Tasks, args \in FewSearchCalls : search_news(t, args)
    \/ \E t \in Tasks : get_categories(t)
    \/ \E t \in Tasks, args \in FewItemCalls : get_news_item(t, args)
    \/ \E t \in Tasks : get_enriched_news(t)
    \/ \E t \in Tasks : get_ticker_summary(t)
    \/ \E t \in Tasks : about(t)
    \/ \E t \in Tasks : categories_resource(t)
    \/ \E t \in Tasks :
          /\ task[t].pc = "awaiting"
          /\ \E resp \in FewResponses(task[t].op) : Deliver(t, resp)
    \/ close
    \/ \E e \in FewEnvs : EnvChange(e)

Spec == Init /\ [][Next]_vars

\* One invocation at a time, over the full ranges of arguments and responses.
NextData ==
    \/ \E args \in LatestCalls : get_latest_news(1, args)
    \/ \E args \in RecapCalls : get_news_recap(1, args)
    \/ \E args \in SearchCalls : search_news(1, args)
    \/ get_categories(1)
    \/ \E args \in ItemCalls : get_news_item(1, args)
    \/ get_enriched_news(1)
    \/ get_ticker_summary(1)
    \/ about(1)
    \/ categories_resource(1)
    \/ /\ task[1].pc = "awaiting"
       /\ \E resp \in Responses(task[1].op) : Deliver(1, resp)

InitData ==
    /\ env \in Envs
    /\ client = NoClient
    /\ closed = {}
    /\ nsessions = 0
    /\ nclients = 0
    /\ nreq = 0
    /\ task = [t \in Tasks |-> Idle]
    /\ ret = NoRet

SpecData == InitData /\ [][NextData]_vars

(***************************************************************************)
(* Properties                                                              *)
(***************************************************************************)
AllowList ==
    {"id", "signal", "sentiment", "sentiment_value", "timestamp", "feed_categories",
     "sources", "author", "tokens", "tweet_url"}

\* out is item restricted to the allow-list: same surviving keys, same values.
IsProjection(out, item) ==
    /\ DOMAIN out = DOMAIN item \cap AllowList
    /\ \A k \in DOMAIN out : out[k] = item[k]

NewsTools == {"get_latest_news", "search_news"}

FreeTools ==
    {"get_latest_news", "get_news_recap", "search_news", "get_categories",
     "get_news_item"}

PaidTools == {"get_enriched_news", "get_ticker_summary"}

Answered == ret.op # "none" /\ ret.resp.kind = "ok"

\* C1: every item a news tool returns is the upstream item restricted to the ten
\* allow-listed fields: the key set is the intersection, the values are the
\* input's, nothing is added, and an item lacking allow-listed keys is no error.
\* get_latest_news and search_news return one such item per upstream item, in
\* order; get_news_item returns one for a non-null body.
C1_TruncateIsProjection ==
    /\ (Answered /\ ret.op \in NewsTools /\ ret.resp.body.t = "list") =>
          /\ ret.outcome = "returned"
          /\ Len(ret.value) = Len(ret.resp.body.v)
          /\ \A i \in 1..Len(ret.resp.body.v) :
                IsProjection(ret.value[i], ret.resp.body.v[i])
    /\ (Answered /\ ret.op = "get_news_item" /\ ret.resp.body.t = "dict") =>
          /\ ret.outcome = "returned"
          /\ IsProjection(ret.value, ret.resp.body.v)

\* get_latest_news returned two items: one that came with all ten free fields,
\* both paid fields and an unknown field, one that lacks an allow-listed field.
C1_Witness ==
    /\ Answered /\ ret.op = "get_latest_news" /\ ret.outcome = "returned"
    /\ ret.resp.body.t = "list" /\ Len(ret.resp.body.v) = 2
    /\ DOMAIN ret.resp.body.v[1] = AllowList \cup {"long_context", "short_context", "error"}
    /\ DOMAIN ret.value[1] = AllowList
    /\ "short_context" \in DOMAIN ret.resp.body.v[2]
    /\ "id" \notin DOMAIN ret.resp.body.v[2]
    /\ Cardinality(DOMAIN ret.value[2]) = 9

InRange(n, lo, hi) == IF n < lo THEN lo ELSE IF n > hi THEN hi ELSE n

\* C2: the limit of the /news request of get_latest_news is the argument (5 when
\* omitted) brought into 1..10, that of search_news the argument brought into 1..5;
\* no /news request carries a limit outside its tool's range.
C2_LimitClamped ==
    \A t \in Tasks :
        (task[t].pc = "awaiting" /\ task[t].op \in NewsTools) =>
            LET asked == IF "limit" \in DOMAIN task[t].args THEN task[t].args.limit ELSE 5
                top == IF task[t].op = "get_latest_news" THEN 10 ELSE 5
            IN  /\ task[t].req.path = <<"/news">>
                /\ task[t].req.params.limit = InRange(asked, 1, top)
                /\ task[t].req.params.limit \in 1..top

\* get_latest_news(limit=999) is waiting for the answer to a request with limit 10.
C2_Witness ==
    \E t \in Tasks :
        /\ task[t].pc = "awaiting" /\ task[t].op = "get_latest_news"
        /\ "limit" \in DOMAIN task[t].args /\ task[t].args.limit = 999
        /\ task[t].req.params.limit = 10

\* The invocation suspended in slot t gets its answer in this step.
Answers(t) == task[t].pc = "awaiting" /\ task'[t].pc = "idle"

C3_RecapMessage(args) ==
    <<"str", "No recap found for category '">> \o Tail(args.category)
    \o <<"' with timeframe '">>
    \o Tail(IF "timeframe" \in DOMAIN args THEN args.timeframe ELSE <<"str", "12h">>)
    \o <<"'.">>

C3_ItemMessage(args) == <<"str", "News item '">> \o Tail(args.id) \o <<"' not found.">>

\* C3: when the request succeeds with a null body, get_news_recap returns
\* {"error": "No recap found for category '<category>' with timeframe '<timeframe>'."}
\* ('12h' when the timeframe was omitted) and get_news_item returns
\* {"error": "News item '<id>' not found."}; neither raises.  With a non-null body
\* the shaped record is returned and it has no "error" key.
C3_AbsenceIsHandled ==
    [][\A t \in Tasks :
          (Answers(t) /\ ret'.resp.kind = "ok") =>
             /\ task[t].op = "get_news_recap" =>
                   /\ ret'.outcome = "returned"
                   /\ IF ret'.resp.body.t = "null"
                      THEN ret'.value = [error |-> C3_RecapMessage(task[t].args)]
                      ELSE /\ DOMAIN ret'.value =
                                {"feed_category", "timeframe", "recap", "created_at"}
                           /\ \A k \in DOMAIN ret'.value :
                                 ret'.value[k] = IF k \in DOMAIN ret'.resp.body.v
                                                 THEN ret'.resp.body.v[k]
                                                 ELSE None
             /\ task[t].op = "get_news_item" =>
                   /\ ret'.outcome = "returned"
                   /\ IF ret'.resp.body.t = "null"
                      THEN ret'.value = [error |-> C3_ItemMessage(task[t].args)]
                      ELSE "error" \notin DOMAIN ret'.value]_vars

\* get_news_recap("nonexistent-category") got a null body and returned the message
\* naming the category and the default timeframe.
C3_Witness ==
    /\ ret.op = "get_news_recap" /\ ret.resp = Ok(JsonNull) /\ ret.outcome = "returned"
    /\ ret.value = [error |-> <<"str", "No recap found for category '",
                                "nonexistent-category", "' with timeframe '", "12h",
                                "'.">>]

EnvToken == env.GLORIA_API_TOKEN

TokenMissing == EnvToken = <<"None">> \/ EnvToken = <<"str">>

ConfigErrorRaised(r) ==
    /\ r.outcome = "raised"
    /\ r.value = [exc |-> "RuntimeError",
                  msg |-> <<"str", "GLORIA_API_TOKEN environment variable is required">>]

\* C4: an invocation of get_enriched_news or get_ticker_summary sends nothing and
\* leaves the request count, the client singleton, the sessions and the other
\* invocations as they were; it returns its static payment-info structure, whatever
\* happened before and whether or not a token is configured.
C4_PaidToolsSendNothing ==
    [][/\ \A t \in Tasks : task'[t].pc = "awaiting" => task'[t].op \notin PaidTools
       /\ ret'.op \in PaidTools =>
             /\ nreq' = nreq /\ nclients' = nclients /\ nsessions' = nsessions
             /\ client' = client /\ closed' = closed /\ task' = task
             /\ ret'.outcome = "returned" /\ ret'.resp.kind = "none"
             /\ ret'.value = IF ret'.op = "get_enriched_news"
                             THEN enriched_news_payment_info
                             ELSE ticker_summary_payment_info
             /\ ret'.value.protocol = <<"str", "x402">>
             /\ ret'.value.endpoint =
                   <<"str", "https://api.itsgloria.ai",
                     IF ret'.op = "get_enriched_news" THEN "/news"
                     ELSE "/news-ticker-summary">>]_vars

\* get_enriched_news returned while no token is configured and no client exists.
C4_Witness ==
    /\ ret.op = "get_enriched_news" /\ ret.outcome = "returned"
    /\ TokenMissing /\ client = NoClient /\ nreq = 0

RECURSIVE C6_Lines(_)
C6_Lines(cats) ==
    IF Len(cats) = 0 THEN <<>>
    ELSE LET c == cats[1]
             r == IF "recap_timeframe" \in DOMAIN c THEN c.recap_timeframe ELSE <<"None">>
         IN  <<"\n", "- ">> \o Tail(c.code) \o <<": ">> \o Tail(c.name)
             \o (IF r # <<"None">> /\ r # <<"str">>
                 THEN <<" (recaps every ">> \o Tail(r) \o <<")">>
                 ELSE <<" (no recaps)">>)
             \o C6_Lines(Tail(cats))

C6_Failed ==
    \/ ret.resp.kind # "ok"
    \/ ret.resp.body.t # "list"
    \/ \E i \in 1..Len(ret.resp.body.v) :
          "code" \notin DOMAIN ret.resp.body.v[i] \/ "name" \notin DOMAIN ret.resp.body.v[i]

\* C6: reading gloria://categories never raises.  When the client cannot be built,
\* the request fails (non-2xx, timeout, undecodable body) or a category lacks
\* 'code' or 'name', it returns exactly the fallback text; otherwise the header
\* and one line per category in upstream order.  The tools do not swallow a
\* failed request: under it they raise.
C6_CategoriesResourceFallsBack ==
    /\ ret.op = "categories_resource" =>
          /\ ret.outcome = "returned"
          /\ ret.value =
                IF C6_Failed
                THEN <<"str", "Categories temporarily unavailable. Use the get_categories tool instead.">>
                ELSE <<"str", "Available Gloria AI news categories:\n">>
                     \o C6_Lines(ret.resp.body.v)
    /\ (ret.op \in FreeTools /\ ret.resp.kind # "ok") => ret.outcome = "raised"

\* The resource got two categories, the second without a name, and returned the
\* fallback text.
C6_Witness ==
    /\ ret.op = "categories_resource" /\ ret.resp.kind = "ok"
    /\ ret.resp.body.t = "list" /\ Len(ret.resp.body.v) = 2
    /\ {"code", "name"} \subseteq DOMAIN ret.resp.body.v[1]
    /\ "name" \notin DOMAIN ret.resp.body.v[2]
    /\ ret.value = <<"str", "Categories temporarily unavailable. Use the get_categories tool instead.">>

Awaiting(t) == task[t].pc = "awaiting"

\* C7: at most one GloriaClient is ever constructed; every invocation in flight holds
\* that instance; a stored client is never replaced or reset, and its token and
\* base URL (less its trailing slashes) are those the environment had when it was
\* built.
C7_SingletonClient ==
    /\ [](/\ nclients <= 1
          /\ (client = NoClient) <=> (nclients = 0)
          /\ \A t \in Tasks : Awaiting(t) =>
                client # NoClient /\ task[t].req.client = client.id)
    /\ [][/\ client # NoClient =>
                /\ client' # NoClient
                /\ client'.id = client.id
                /\ client'.token = client.token
                /\ client'.base_url = client.base_url
          /\ (client = NoClient /\ client' # NoClient) =>
                /\ ~TokenMissing
                /\ client'.token = EnvToken
                /\ LET b == env.AI_HUB_BASE_URL
                       u == client'.base_url
                   IN  IF b = <<"None">>
                       THEN u = <<"str", "https://ai-hub.cryptobriefing.com">>
                       ELSE /\ Len(u) <= Len(b) /\ u = SubSeq(b, 1, Len(u))
                            /\ u[Len(u)] # "/"
                            /\ \A i \in (Len(u) + 1)..Len(b) : b[i] = "/"]_vars

\* Two invocations in flight on the client built under tokA, the environment now
\* saying tokB.
C7_Witness ==
    /\ client # NoClient /\ client.token = <<"str", "tokA">>
    /\ EnvToken = <<"str", "tokB">>
    /\ \E t, u \in Tasks : t # u /\ Awaiting(t) /\ Awaiting(u)
    /\ nclients = 1

HasOpenSession ==
    client # NoClient /\ client.http # NoSession /\ client.http \notin closed

Starts(t) == task[t].pc = "idle" /\ task'[t].pc = "awaiting"

C9_OneRequestNoRetry ==
    /\ [](\A t \in Tasks : Awaiting(t) =>
             /\ "token" \in DOMAIN task[t].req.params
             /\ task[t].req.params.token = client.token
             /\ client.token # <<"None">> /\ client.token # <<"str">>)
    /\ [][/\ nreq' = nreq \/ nreq' = nreq + 1
          /\ \A t \in Tasks : Starts(t) =>
                nreq' = nreq + 1 /\ \A u \in Tasks \ {t} : task'[u] = task[u]
          /\ nreq' # nreq => \E t \in Tasks : Starts(t)
          /\ (ret'.op \in FreeTools \cup {"categories_resource"} /\ ret'.resp.kind = "none")
                => (client = NoClient /\ TokenMissing)
          /\ ret'.op \in PaidTools \cup {"about"} => nreq' = nreq
          /\ \A t \in Tasks : Answers(t) =>
                /\ nreq' = nreq
                /\ ret'.op = task[t].op
                /\ (task[t].op \in FreeTools /\ ret'.resp.kind = "timeout") =>
                      /\ ret'.outcome = "raised"
                      /\ ret'.value = [exc |-> "TimeoutException"]
                /\ (task[t].op \in FreeTools /\ ret'.resp.kind = "status") =>
                      /\ ret'.outcome = "raised"
                      /\ ret'.value = [exc |-> "HTTPStatusError",
                                       status |-> ret'.resp.status]]_vars

\* search_news raised the 500 its only request ended in.
C9_Witness ==
    /\ ret.op = "search_news" /\ ret.resp = [kind |-> "status", status |-> 500]
    /\ ret.outcome = "raised" /\ ret.value.exc = "HTTPStatusError" /\ nreq = 1

\* C10: under every interleaving of invocations and close(), a stored client always
\* has a session, an invocation in flight holds the one client and an allocated
\* session; as long as nothing was closed there is one session and all invocations
\* in flight share it; and delivering an answer, failed or not, leaves the client,
\* the sessions and the other invocations untouched.
C10_FirstUseIsAtomic ==
    /\ [](/\ client # NoClient => client.http \in 1..nsessions
          /\ \A t \in Tasks : Awaiting(t) =>
                /\ task[t].req.client = 1 /\ client # NoClient /\ client.id = 1
                /\ task[t].req.sess \in 1..nsessions
                /\ closed = {} => task[t].req.sess = client.http
          /\ closed = {} => nsessions <= 1
          /\ nsessions <= Cardinality(closed) + 1)
    /\ [][\A t \in Tasks : Answers(t) =>
             /\ client' = client /\ closed' = closed /\ nsessions' = nsessions
             /\ nclients' = nclients
             /\ \A u \in Tasks \ {t} : task'[u] = task[u]]_vars

\* Two invocations were started before any answer came; they share session 1.
C10_Witness ==
    /\ nsessions = 1 /\ closed = {} /\ nreq = 2
    /\ \E t, u \in Tasks :
          /\ t # u /\ Awaiting(t) /\ Awaiting(u)
          /\ task[t].req.sess = 1 /\ task[u].req.sess = 1

=============================================================================
